---- MODULE Spec2Model ----
(***************************************************************************)
(* Model of rps-websocket-server.py: the human and bot sessions, the       *)
(* matchmaker, the judge, the queues between them, and Game.turn.          *)
(*                                                                         *)
(* Scheduling is asyncio's: code between two suspension points is one      *)
(* atomic action.  Queue.put on the unbounded queues never suspends, so a  *)
(* put belongs to the action that issues it; every recv, send, ping, sleep *)
(* and Queue.get is a point where the other tasks may run.  Client frames  *)
(* are inputs chosen when the session reads them; a closed connection      *)
(* shows up as the outcome of the read, send or ping that observes it.     *)
(*                                                                         *)
(* A User compares equal to another by uid (User.__eq__), and the judge's   *)
(* `outstanding` and the turn records are keyed by uid.  generate_uid keeps *)
(* seven hex digits of a clock value, so two users can carry one uid; uid   *)
(* is state, fixed when the user is made: a client's at logon, a bot's when *)
(* the matchmaker spawns it.                                                *)
(*                                                                         *)
(* asyncio.TimeoutError is the builtin TimeoutError, so a TimeoutError out *)
(* of recv is caught in wait_for_message like the deadline; out of send or *)
(* ping it reaches the handler of user_session.                            *)
(*                                                                         *)
(* Game.turns is read by the program only through len(turns) and           *)
(* turns[-1]; the model keeps exactly those two: nturns and last.  Every   *)
(* turn record is `last` in the state that follows its turn.               *)
(***************************************************************************)
EXTENDS Integers, Sequences, FiniteSets, TLC

\* ------------------------------------------------------------------ bounds
NumHumans == 2
MaxBots == 1
MaxRequests == 4
MaxInputs == 5
MaxMove == 0
MaxToGo == 2

\* ------------------------------------------------------- program constants
WinScore == 10
WinLead == 2

None == 0
Humans == 1..NumHumans
Bots == (NumHumans + 1)..(NumHumans + MaxBots)
Participants == Humans \cup Bots

\* ------------------------------------------------------------------ state
VARIABLES
  uid,          \* User.uid, per participant
  opponent,     \* User.opponent, per participant (None when unset)
  game,         \* User.game: index into games (None when unset)
  dropped,      \* User.dropped
  affiliation,  \* User.affiliation: the human a bot was spawned for
  queue,        \* User.queue: the participant's command queue
  games,        \* every Game object made so far, in creation order
  pc,           \* where each session coroutine is suspended
  them,         \* user_session_play_game's local `them` (None outside it)
  lgame,        \* user_session_play_game's local `game` (None outside it)
  listener,     \* the bot_request listener task of a human is pending
  matchmaker_queue,
  matchmaker_livecheck_queue,
  judge_queue,
  waiting,      \* matchmaker's local `waiting`
  new_user,     \* matchmaker's local `new_user` (None once the iteration ends)
  on_hold,      \* matchmaker's local `on_hold` (None once the iteration ends)
  mm_pc,        \* matchmaker: "get" (intake) or "livecheck" (awaiting answer)
  spawned,      \* number of bots spawned so far
  outstanding,  \* judge's local `outstanding`, keyed by uid
  requests,     \* number of pair requests issued (bounded by MaxRequests)
  moves,        \* number of gestures the clients submitted (see MaxInputs)
  surrendered   \* history: <<participant, game>> of every surrender submitted

vars == <<uid, opponent, game, dropped, affiliation, queue, games, pc, them, lgame,
          listener, matchmaker_queue, matchmaker_livecheck_queue, judge_queue,
          waiting, new_user, on_hold, mm_pc, spawned, outstanding, requests,
          moves, surrendered>>

userVars == <<uid, opponent, game, dropped, affiliation>>
mmVars == <<waiting, new_user, on_hold, mm_pc, spawned>>
sessVars == <<pc, them, lgame, listener>>

\* User.__eq__: two users are equal when their uids are
SameUser(a, b) == uid[a] = uid[b]

\* ----------------------------------------------------------------- Gesture
ROCK == "ROCK"
PAPER == "PAPER"
SCISSORS == "SCISSORS"
PASS == "PASS"
Gesture == {ROCK, PAPER, SCISSORS, PASS}
Special == {"leave", "surrender"}

\* Gesture(value): the member with that value, PASS for any other (_missing_)
GestureOf(v) ==
  CASE v = 0 -> ROCK
    [] v = 1 -> PAPER
    [] v = 2 -> SCISSORS
    [] OTHER -> PASS

\* Gesture.value
GestureValue(m) ==
  CASE m = ROCK -> 0
    [] m = PAPER -> 1
    [] m = SCISSORS -> 2
    [] OTHER -> -1

\* Gesture.__gt__
Gt(a, b) ==
  \/ a = ROCK /\ b = SCISSORS
  \/ a = PAPER /\ b = ROCK
  \/ a = SCISSORS /\ b = PAPER
  \/ a # PASS /\ b = PASS

\* Gesture.__lt__ without the rule that PASS is below every other gesture
LtNoPass(a, b) ==
  \/ a = ROCK /\ b = PAPER
  \/ a = PAPER /\ b = SCISSORS
  \/ a = SCISSORS /\ b = ROCK

\* Gesture.__lt__
Lt(a, b) ==
  \/ a = ROCK /\ b = PAPER
  \/ a = PAPER /\ b = SCISSORS
  \/ a = SCISSORS /\ b = ROCK
  \/ a = PASS /\ b # PASS

Max(a, b) == IF a >= b THEN a ELSE b

\* ------------------------------------------------------------------- Game
NoTurn == [winner |-> None, move1 |-> PASS, move2 |-> PASS]

\* The dict appended to Game.turns: {'winner': w, user1.uid: move1,
\* user2.uid: move2}.  move1 and move2 are the entries read under user1.uid
\* and user2.uid; when both keys are the same uid the later entry replaces
\* the earlier one.
TurnRecord(g, w, move1, move2) ==
  [winner |-> w,
   move1 |-> IF SameUser(g.user1, g.user2) THEN move2 ELSE move1,
   move2 |-> move2]

\* Game.__init__
NewGame(u1, u2) ==
  [user1 |-> u1, user2 |-> u2, score1 |-> 0, score2 |-> 0,
   winner |-> None, special |-> "none", nturns |-> 0, last |-> NoTurn]

\* Game.turn with the winner test of a game that ends at the first to WinScore
GameTurnNoLead(g, move1, move2) ==
  IF Gt(move1, move2) THEN
    [g EXCEPT !.score1 = @ + 1,
              !.winner = IF g.score1 + 1 >= WinScore THEN g.user1 ELSE @,
              !.nturns = @ + 1,
              !.last = TurnRecord(g, g.user1, move1, move2)]
  ELSE IF Gt(move2, move1) THEN
    [g EXCEPT !.score2 = @ + 1,
              !.winner = IF g.score2 + 1 >= WinScore THEN g.user2 ELSE @,
              !.nturns = @ + 1,
              !.last = TurnRecord(g, g.user2, move1, move2)]
  ELSE
    [g EXCEPT !.nturns = @ + 1,
              !.last = TurnRecord(g, None, move1, move2)]

\* Game.turn with the winner test one point late (> instead of >=)
GameTurnLate(g, move1, move2) ==
  IF Gt(move1, move2) THEN
    [g EXCEPT !.score1 = @ + 1,
              !.winner = IF g.score1 + 1 > Max(WinScore, g.score2 + WinLead)
                         THEN g.user1 ELSE @,
              !.nturns = @ + 1,
              !.last = TurnRecord(g, g.user1, move1, move2)]
  ELSE IF Gt(move2, move1) THEN
    [g EXCEPT !.score2 = @ + 1,
              !.winner = IF g.score2 + 1 > Max(WinScore, g.score1 + WinLead)
                         THEN g.user2 ELSE @,
              !.nturns = @ + 1,
              !.last = TurnRecord(g, g.user2, move1, move2)]
  ELSE
    [g EXCEPT !.nturns = @ + 1,
              !.last = TurnRecord(g, None, move1, move2)]

\* Game.turn (the TypeError guard is never taken: the judge passes gestures)
GameTurn(g, move1, move2) ==
  IF Gt(move1, move2) THEN
    [g EXCEPT !.score1 = @ + 1,
              !.winner = IF g.score1 + 1 >= Max(WinScore, g.score2 + WinLead)
                         THEN g.user1 ELSE @,
              !.nturns = @ + 1,
              !.last = TurnRecord(g, g.user1, move1, move2)]
  ELSE IF Gt(move2, move1) THEN
    [g EXCEPT !.score2 = @ + 1,
              !.winner = IF g.score2 + 1 >= Max(WinScore, g.score1 + WinLead)
                         THEN g.user2 ELSE @,
              !.nturns = @ + 1,
              !.last = TurnRecord(g, g.user2, move1, move2)]
  ELSE
    [g EXCEPT !.nturns = @ + 1,
              !.last = TurnRecord(g, None, move1, move2)]


\* A command on a session queue; `opponent` is the payload of `match`.
Cmd(a) == [action |-> a, opponent |-> None]
MatchCmd(u) == [action |-> "match", opponent |-> u]

\* A judge intake item (user, move).  `game` is a history tag the judge never
\* reads: the game the submitter was playing when it submitted.
Submission(u, m, g) == [user |-> u, move |-> m, game |-> g]

\* A key absent from `outstanding`.  In an entry, `user` and `game` are
\* history tags the judge never reads: who submitted the move, and for
\* which game.
NoEntry == [move |-> "absent", game |-> None, user |-> None]

\* generate_uid: the uids of the participants.  Each participant's number
\* stands for a uid of its own; the second client to log on either has its
\* own or carries the uid of the first.  A bot that is not spawned yet
\* stands under its own number.
Uids == Participants
DistinctUids == [p \in Participants |-> p]
SharedUids == [p \in Participants |-> IF p = 2 THEN 1 ELSE p]

\* generate_uid in spawn_bot: the uid drawn for bot b is one of its own or
\* the uid of a client
BotUids(b) == {uid[h] : h \in Humans} \cup {b}

\* Values a client puts in the `move` key, from -1 (PASS's own value) up to
\* the bound MaxMove
MoveValues == -1..MaxMove

\* Values of random.randrange(3) a bot draws
BotValues == 0..2

Put(q, u, cmd) == [q EXCEPT ![u] = Append(@, cmd)]

\* ------------------------------------------------------------------- Init
\* Every client is connected and has logged on (user_session_logon made its
\* User); no bot is spawned, the matchmaker and the judge wait on their
\* empty intakes.
Init ==
  /\ uid \in {DistinctUids, SharedUids}
  /\ opponent = [p \in Participants |-> None]
  /\ game = [p \in Participants |-> None]
  /\ dropped = [p \in Participants |-> FALSE]
  /\ affiliation = [p \in Participants |-> None]
  /\ queue = [p \in Participants |-> <<>>]
  /\ games = <<>>
  /\ pc = [p \in Participants |-> IF p \in Humans THEN "standby" ELSE "unborn"]
  /\ them = [h \in Humans |-> None]
  /\ lgame = [h \in Humans |-> None]
  /\ listener = [h \in Humans |-> FALSE]
  /\ matchmaker_queue = <<>>
  /\ matchmaker_livecheck_queue = <<>>
  /\ judge_queue = <<>>
  /\ waiting = None
  /\ new_user = None
  /\ on_hold = None
  /\ mm_pc = "get"
  /\ spawned = 0
  /\ outstanding = [k \in Uids |-> NoEntry]
  /\ requests = 0
  /\ moves = 0
  /\ surrendered = {}

\* -------------------------------------------------------- human session
\* user_session_wait_for_opponent: the standby frame arrives (or recv raises
\* TimeoutError, which wait_for_message answers with {}, not None); request
\* a human and start the bot_request listener
Standby(h) ==
  /\ pc[h] = "standby"
  /\ requests < MaxRequests
  /\ requests + moves < MaxInputs
  /\ moves' = moves
  /\ matchmaker_queue' = Append(matchmaker_queue, <<h, FALSE>>)
  /\ requests' = requests + 1
  /\ listener' = [listener EXCEPT ![h] = TRUE]
  /\ pc' = [pc EXCEPT ![h] = "wait"]
  /\ UNCHANGED <<userVars, queue, games, them, lgame,
                 matchmaker_livecheck_queue, judge_queue,
                 mmVars, outstanding, surrendered>>

\* user_session_wait_for_opponent: the connection closes before standby
\* (return False), or a frame that is JSON but no object raises TypeError in
\* wait_for_message; either way user_session goes to its finally block and
\* nothing is sent to the judge
StandbyClosed(h) ==
  /\ pc[h] = "standby"
  /\ pc' = [pc EXCEPT ![h] = "closing"]
  /\ UNCHANGED <<userVars, queue, games, them, lgame, listener,
                 matchmaker_queue, matchmaker_livecheck_queue, judge_queue,
                 mmVars, outstanding, requests, moves, surrendered>>

\* Number of bot requests waiting in the matchmaker intake
RECURSIVE PendingBotRequests(_)
PendingBotRequests(q) ==
  IF q = <<>> THEN 0
  ELSE (IF Head(q)[2] THEN 1 ELSE 0) + PendingBotRequests(Tail(q))

\* listen_for_bot_request: the bot_request frame arrives (or recv raises
\* TimeoutError, for which wait_for_message returns {}); request a bot.
\* The listener is a task of its own: it runs until it has put one request,
\* is cancelled (on `match`), finds the connection closed or dies on a frame.
BotRequest(h) ==
  /\ listener[h]
  /\ requests < MaxRequests
  /\ requests + moves < MaxInputs
  /\ moves' = moves
  /\ spawned + PendingBotRequests(matchmaker_queue) < MaxBots
  /\ matchmaker_queue' = Append(matchmaker_queue, <<h, TRUE>>)
  /\ requests' = requests + 1
  /\ listener' = [listener EXCEPT ![h] = FALSE]
  /\ UNCHANGED <<userVars, queue, games, pc, them, lgame,
                 matchmaker_livecheck_queue, judge_queue,
                 mmVars, outstanding, surrendered>>

\* user_session_wait_for_opponent: `livecheck` is taken from the queue and
\* the session suspends in `await ws.ping()`
WaitLivecheck(h) ==
  /\ pc[h] = "wait"
  /\ queue[h] # <<>>
  /\ Head(queue[h]).action = "livecheck"
  /\ queue' = [queue EXCEPT ![h] = Tail(@)]
  /\ pc' = [pc EXCEPT ![h] = "ping"]
  /\ UNCHANGED <<userVars, games, them, lgame, listener, matchmaker_queue,
                 matchmaker_livecheck_queue, judge_queue,
                 mmVars, outstanding, requests, moves, surrendered>>

\* user_session_wait_for_opponent: the ping went out; answer live=True and
\* wait for the next command
WaitLivecheckAnswer(h) ==
  /\ pc[h] = "ping"
  /\ matchmaker_livecheck_queue' = Append(matchmaker_livecheck_queue, <<h, TRUE>>)
  /\ pc' = [pc EXCEPT ![h] = "wait"]
  /\ UNCHANGED <<userVars, queue, games, them, lgame, listener,
                 matchmaker_queue, judge_queue,
                 mmVars, outstanding, requests, moves, surrendered>>

\* user_session_wait_for_opponent: the ping raises ConnectionClosed: answer
\* live=False and return False.  The listener task is not cancelled on this
\* path.
WaitLivecheckClosed(h) ==
  /\ pc[h] = "ping"
  /\ matchmaker_livecheck_queue' = Append(matchmaker_livecheck_queue, <<h, FALSE>>)
  /\ pc' = [pc EXCEPT ![h] = "closing"]
  /\ UNCHANGED <<userVars, queue, games, them, lgame, listener,
                 matchmaker_queue, judge_queue,
                 mmVars, outstanding, requests, moves, surrendered>>

\* user_session_wait_for_opponent: the ping raises TimeoutError, which only
\* user_session catches: no answer is queued, judge_queue.put is called
\* without await (nothing is queued), and the session ends.  The listener
\* task is not cancelled.
WaitLivecheckTimeoutError(h) ==
  /\ pc[h] = "ping"
  /\ pc' = [pc EXCEPT ![h] = "closing"]
  /\ UNCHANGED <<userVars, queue, games, them, lgame, listener,
                 matchmaker_queue, matchmaker_livecheck_queue, judge_queue,
                 mmVars, outstanding, requests, moves, surrendered>>

\* listen_for_bot_request: the listener's recv finds the connection closed
\* (wait_for_message returns None, the listener returns False) or the task
\* dies on a frame that is JSON but no object; the session, blocked
\* elsewhere, goes on
ListenerClosed(h) ==
  /\ listener[h]
  /\ listener' = [listener EXCEPT ![h] = FALSE]
  /\ UNCHANGED <<userVars, queue, games, pc, them, lgame, matchmaker_queue,
                 matchmaker_livecheck_queue, judge_queue,
                 mmVars, outstanding, requests, moves, surrendered>>

\* user_session_wait_for_opponent, `match`: cancel the listener and enter
\* user_session_play_game, which binds them = me.opponent, game = me.game
\* (them.name raises AttributeError when me.opponent is None)
WaitMatch(h) ==
  /\ pc[h] = "wait"
  /\ queue[h] # <<>>
  /\ Head(queue[h]).action = "match"
  /\ queue' = [queue EXCEPT ![h] = Tail(@)]
  /\ listener' = [listener EXCEPT ![h] = FALSE]
  /\ them' = [them EXCEPT ![h] = opponent[h]]
  /\ lgame' = [lgame EXCEPT ![h] = game[h]]
  /\ pc' = [pc EXCEPT ![h] = IF opponent[h] = None THEN "closing" ELSE "sendmatch"]
  /\ UNCHANGED <<userVars, games, matchmaker_queue, matchmaker_livecheck_queue,
                 judge_queue, mmVars, outstanding, requests, moves, surrendered>>

\* wait_for_command in user_session_wait_for_opponent: any other command is
\* logged and ignored
WaitIgnore(h) ==
  /\ pc[h] = "wait"
  /\ queue[h] # <<>>
  /\ Head(queue[h]).action \notin {"livecheck", "match"}
  /\ queue' = [queue EXCEPT ![h] = Tail(@)]
  /\ UNCHANGED <<userVars, games, sessVars, matchmaker_queue,
                 matchmaker_livecheck_queue, judge_queue,
                 mmVars, outstanding, requests, moves, surrendered>>

\* The judge intake item a session puts for its current game
Submit(h, m) == Submission(h, m, lgame[h])

\* user_session_play_game: the match frame is sent
SendMatch(h) ==
  /\ pc[h] = "sendmatch"
  /\ pc' = [pc EXCEPT ![h] = "getmove"]
  /\ UNCHANGED <<userVars, queue, games, them, lgame, listener,
                 matchmaker_queue, matchmaker_livecheck_queue, judge_queue,
                 mmVars, outstanding, requests, moves, surrendered>>

\* user_session_play_game: sending the match frame raises TimeoutError,
\* which only user_session catches: judge_queue.put is called without await,
\* nothing is queued, and the session ends
SendMatchTimeoutError(h) ==
  /\ pc[h] = "sendmatch"
  /\ pc' = [pc EXCEPT ![h] = "closing"]
  /\ UNCHANGED <<userVars, queue, games, them, lgame, listener,
                 matchmaker_queue, matchmaker_livecheck_queue, judge_queue,
                 mmVars, outstanding, requests, moves, surrendered>>

\* user_session_play_game: sending the match frame raises ConnectionClosed
SendMatchClosed(h) ==
  /\ pc[h] = "sendmatch"
  /\ judge_queue' = Append(judge_queue, Submit(h, "leave"))
  /\ pc' = [pc EXCEPT ![h] = "closing"]
  /\ UNCHANGED <<userVars, queue, games, them, lgame, listener,
                 matchmaker_queue, matchmaker_livecheck_queue,
                 mmVars, outstanding, requests, moves, surrendered>>

\* The bound on inputs: a client sends a gesture (or lets the deadline pass)
\* only while the clients have made fewer than MaxInputs pair requests and
\* gestures
MayPlay(h) == requests + moves < MaxInputs

\* user_session_play_game: a valid move frame for this turn
GetMove(h, v) ==
  /\ pc[h] = "getmove"
  /\ MayPlay(h)
  /\ moves' = moves + 1
  /\ judge_queue' = Append(judge_queue, Submit(h, GestureOf(v)))
  /\ pc' = [pc EXCEPT ![h] = "waitcmd"]
  /\ UNCHANGED <<userVars, queue, games, them, lgame, listener,
                 matchmaker_queue, matchmaker_livecheck_queue,
                 mmVars, outstanding, requests, surrendered>>

\* user_session_play_game: the 10.5 s deadline passes (or recv raises
\* TimeoutError): wait_for_message returns {}, the move is PASS
GetMoveTimeout(h) ==
  /\ pc[h] = "getmove"
  /\ MayPlay(h)
  /\ moves' = moves + 1
  /\ judge_queue' = Append(judge_queue, Submit(h, PASS))
  /\ pc' = [pc EXCEPT ![h] = "waitcmd"]
  /\ UNCHANGED <<userVars, queue, games, them, lgame, listener,
                 matchmaker_queue, matchmaker_livecheck_queue,
                 mmVars, outstanding, requests, surrendered>>

\* user_session_play_game: wait_for_message returns None (connection
\* closed): leave is submitted and the session ends
GetMoveClosed(h) ==
  /\ pc[h] = "getmove"
  /\ judge_queue' = Append(judge_queue, Submit(h, "leave"))
  /\ pc' = [pc EXCEPT ![h] = "closing"]
  /\ UNCHANGED <<userVars, queue, games, them, lgame, listener,
                 matchmaker_queue, matchmaker_livecheck_queue,
                 mmVars, outstanding, requests, moves, surrendered>>

\* user_session_play_game: a quit frame: leave is submitted and the session
\* ends (ws.close() is not awaited there; user_session's finally closes)
GetMoveQuit(h) ==
  /\ pc[h] = "getmove"
  /\ judge_queue' = Append(judge_queue, Submit(h, "leave"))
  /\ pc' = [pc EXCEPT ![h] = "closing"]
  /\ UNCHANGED <<userVars, queue, games, them, lgame, listener,
                 matchmaker_queue, matchmaker_livecheck_queue,
                 mmVars, outstanding, requests, moves, surrendered>>

\* user_session_play_game: a surrender frame; return True with me.opponent
\* and me.game left as they are
GetMoveSurrender(h) ==
  /\ pc[h] = "getmove"
  /\ judge_queue' = Append(judge_queue, Submit(h, "surrender"))
  /\ surrendered' = surrendered \cup {<<h, lgame[h]>>}
  /\ pc' = [pc EXCEPT ![h] = "standby"]
  /\ them' = [them EXCEPT ![h] = None]
  /\ lgame' = [lgame EXCEPT ![h] = None]
  /\ UNCHANGED <<userVars, queue, games, listener,
                 matchmaker_queue, matchmaker_livecheck_queue,
                 mmVars, outstanding, requests, moves>>

\* user_session_play_game: a frame that is JSON but no object (a number)
\* raises TypeError in wait_for_message; no handler of user_session catches
\* it, the finally block runs and nothing is queued
GetMoveTypeError(h) ==
  /\ pc[h] = "getmove"
  /\ pc' = [pc EXCEPT ![h] = "closing"]
  /\ UNCHANGED <<userVars, queue, games, them, lgame, listener,
                 matchmaker_queue, matchmaker_livecheck_queue, judge_queue,
                 mmVars, outstanding, requests, moves, surrendered>>

\* `if game.winner`, on the session's own game
Called(h) == games[lgame[h]].winner # None

TakeCmd(h, a) ==
  /\ pc[h] = "waitcmd"
  /\ queue[h] # <<>>
  /\ Head(queue[h]).action = a
  /\ queue' = [queue EXCEPT ![h] = Tail(@)]

\* user_session_play_game, `endturn` on a game without turns:
\* game.turns[-1] raises IndexError, which ends the session through
\* user_session's finally block
EndturnNoTurn(h) ==
  /\ TakeCmd(h, "endturn")
  /\ games[lgame[h]].nturns = 0
  /\ pc' = [pc EXCEPT ![h] = "closing"]
  /\ UNCHANGED <<userVars, games, them, lgame, listener, matchmaker_queue,
                 matchmaker_livecheck_queue, judge_queue,
                 mmVars, outstanding, requests, moves, surrendered>>

\* user_session_play_game, `endturn`: the last turn is read and the session
\* suspends sending the endturn frame
Endturn(h) ==
  /\ TakeCmd(h, "endturn")
  /\ games[lgame[h]].nturns > 0
  /\ pc' = [pc EXCEPT ![h] = "sendturn"]
  /\ UNCHANGED <<userVars, games, them, lgame, listener, matchmaker_queue,
                 matchmaker_livecheck_queue, judge_queue,
                 mmVars, outstanding, requests, moves, surrendered>>

\* user_session_play_game: sending the endturn frame raises
\* ConnectionClosed, or TimeoutError for user_session's handler; on both
\* paths judge_queue.put is called without await, so nothing is queued, and
\* the session ends
EndturnClosed(h) ==
  /\ pc[h] = "sendturn"
  /\ pc' = [pc EXCEPT ![h] = "closing"]
  /\ UNCHANGED <<userVars, queue, games, them, lgame, listener,
                 matchmaker_queue, matchmaker_livecheck_queue, judge_queue,
                 mmVars, outstanding, requests, moves, surrendered>>

\* user_session_play_game: the endturn frame is sent; `if game.winner` then
\* either starts the end of the game or the 2 s pause before the next read
EndturnSent(h) ==
  /\ pc[h] = "sendturn"
  /\ pc' = [pc EXCEPT ![h] = IF Called(h) THEN "endgame" ELSE "getmove"]
  /\ UNCHANGED <<userVars, queue, games, them, lgame, listener,
                 matchmaker_queue, matchmaker_livecheck_queue, judge_queue,
                 mmVars, outstanding, requests, moves, surrendered>>

\* user_session_play_game, `endgame` while the session's game has no winner:
\* nothing is sent and the next turn starts
EndgameNext(h) ==
  /\ TakeCmd(h, "endgame")
  /\ ~Called(h)
  /\ pc' = [pc EXCEPT ![h] = "getmove"]
  /\ UNCHANGED <<userVars, games, them, lgame, listener, matchmaker_queue,
                 matchmaker_livecheck_queue, judge_queue,
                 mmVars, outstanding, requests, moves, surrendered>>

\* user_session_play_game, `endgame` with the game called: the session
\* sleeps 0.5 s and sends the endgame frame
EndgameCalled(h) ==
  /\ TakeCmd(h, "endgame")
  /\ Called(h)
  /\ pc' = [pc EXCEPT ![h] = "endgame"]
  /\ UNCHANGED <<userVars, games, them, lgame, listener, matchmaker_queue,
                 matchmaker_livecheck_queue, judge_queue,
                 mmVars, outstanding, requests, moves, surrendered>>

\* user_session_play_game: the endgame frame is sent, me.opponent and
\* me.game are reset, and the session returns True
GameOver(h) ==
  /\ pc[h] = "endgame"
  /\ opponent' = [opponent EXCEPT ![h] = None]
  /\ game' = [game EXCEPT ![h] = None]
  /\ pc' = [pc EXCEPT ![h] = "standby"]
  /\ them' = [them EXCEPT ![h] = None]
  /\ lgame' = [lgame EXCEPT ![h] = None]
  /\ UNCHANGED <<uid, dropped, affiliation, queue, games, listener,
                 matchmaker_queue, matchmaker_livecheck_queue, judge_queue,
                 mmVars, outstanding, requests, moves, surrendered>>

\* user_session_play_game: sending the endgame frame raises
\* ConnectionClosed or TimeoutError, caught by user_session (the handler of
\* TimeoutError calls judge_queue.put without await: nothing is queued)
GameOverClosed(h) ==
  /\ pc[h] = "endgame"
  /\ pc' = [pc EXCEPT ![h] = "closing"]
  /\ UNCHANGED <<userVars, queue, games, them, lgame, listener,
                 matchmaker_queue, matchmaker_livecheck_queue, judge_queue,
                 mmVars, outstanding, requests, moves, surrendered>>

\* wait_for_command in user_session_play_game: any other command is logged
\* and ignored
CmdIgnore(h) ==
  /\ pc[h] = "waitcmd"
  /\ queue[h] # <<>>
  /\ Head(queue[h]).action \notin {"endturn", "endgame"}
  /\ queue' = [queue EXCEPT ![h] = Tail(@)]
  /\ UNCHANGED <<userVars, games, sessVars, matchmaker_queue,
                 matchmaker_livecheck_queue, judge_queue,
                 mmVars, outstanding, requests, moves, surrendered>>

\* user_session, finally: the transport is closed, then me.dropped = True
Drop(h) ==
  /\ pc[h] = "closing"
  /\ dropped' = [dropped EXCEPT ![h] = TRUE]
  /\ pc' = [pc EXCEPT ![h] = "done"]
  /\ UNCHANGED <<uid, opponent, game, affiliation, queue, games, them, lgame,
                 listener, matchmaker_queue, matchmaker_livecheck_queue,
                 judge_queue, mmVars, outstanding, requests, moves, surrendered>>

\* ------------------------------------------------------------ bot session
\* A bot's queue only ever receives one `match` or one `terminate`, then the
\* judge's commands, so wait_for_command's "ignored" branch is never taken
\* in bot_session.
\* The bot's judge intake item: a random gesture of ROCK, PAPER, SCISSORS
BotSubmit(b, v) == Submission(b, GestureOf(v), game[b])

\* bot_session: `match` arrives; submit the first move
BotMatch(b, v) ==
  /\ pc[b] = "waitmatch"
  /\ queue[b] # <<>>
  /\ Head(queue[b]).action = "match"
  /\ queue' = [queue EXCEPT ![b] = Tail(@)]
  /\ judge_queue' = Append(judge_queue, BotSubmit(b, v))
  /\ pc' = [pc EXCEPT ![b] = "botcmd"]
  /\ UNCHANGED <<userVars, games, them, lgame, listener, matchmaker_queue,
                 matchmaker_livecheck_queue, mmVars, outstanding, requests, moves,
                 surrendered>>

\* bot_session: `terminate` arrives; return, and finally sets dropped
BotTerminate(b) ==
  /\ pc[b] = "waitmatch"
  /\ queue[b] # <<>>
  /\ Head(queue[b]).action = "terminate"
  /\ queue' = [queue EXCEPT ![b] = Tail(@)]
  /\ dropped' = [dropped EXCEPT ![b] = TRUE]
  /\ pc' = [pc EXCEPT ![b] = "done"]
  /\ UNCHANGED <<uid, opponent, game, affiliation, games, them, lgame, listener,
                 matchmaker_queue, matchmaker_livecheck_queue, judge_queue,
                 mmVars, outstanding, requests, moves, surrendered>>

\* bot_session: a judge command arrives and the game has a winner
BotEnd(b) ==
  /\ pc[b] = "botcmd"
  /\ queue[b] # <<>>
  /\ Head(queue[b]).action \in {"endturn", "endgame"}
  /\ games[game[b]].winner # None
  /\ queue' = [queue EXCEPT ![b] = Tail(@)]
  /\ dropped' = [dropped EXCEPT ![b] = TRUE]
  /\ pc' = [pc EXCEPT ![b] = "done"]
  /\ UNCHANGED <<uid, opponent, game, affiliation, games, them, lgame, listener,
                 matchmaker_queue, matchmaker_livecheck_queue, judge_queue,
                 mmVars, outstanding, requests, moves, surrendered>>

\* bot_session: a judge command arrives and the game goes on; next move
BotNext(b, v) ==
  /\ pc[b] = "botcmd"
  /\ queue[b] # <<>>
  /\ Head(queue[b]).action \in {"endturn", "endgame"}
  /\ games[game[b]].winner = None
  /\ queue' = [queue EXCEPT ![b] = Tail(@)]
  /\ judge_queue' = Append(judge_queue, BotSubmit(b, v))
  /\ UNCHANGED <<userVars, games, sessVars, matchmaker_queue,
                 matchmaker_livecheck_queue, mmVars, outstanding, requests, moves,
                 surrendered>>

\* ------------------------------------------------------------------ judge
\* The item the judge takes next: user, move = await judge_queue.get()
Item == Head(judge_queue)

\* outstanding[u.uid]
Entry(u) == outstanding[uid[u]]

\* u.uid in outstanding
HasEntry(u) == Entry(u).move # "absent"

\* outstanding[user.uid] = move
Hold(item) == [outstanding EXCEPT ![uid[item.user]] =
                 [move |-> item.move, game |-> item.game, user |-> item.user]]

\* outstanding.pop(opponent.uid, None)
Pop(u) == [outstanding EXCEPT ![uid[u]] = NoEntry]

\* judge that records the move before it looks at the dropped flag
JudgeDroppedRecorded ==
  /\ judge_queue # <<>>
  /\ dropped[Item.user]
  /\ judge_queue' = Tail(judge_queue)
  /\ outstanding' = Hold(Item)
  /\ UNCHANGED <<userVars, queue, games, sessVars, matchmaker_queue,
                 matchmaker_livecheck_queue, mmVars, requests, moves, surrendered>>

\* judge: the submitter is dropped; the item is ignored
JudgeDropped ==
  /\ judge_queue # <<>>
  /\ dropped[Item.user]
  /\ judge_queue' = Tail(judge_queue)
  /\ UNCHANGED <<userVars, queue, games, sessVars, matchmaker_queue,
                 matchmaker_livecheck_queue, mmVars, outstanding, requests, moves,
                 surrendered>>

\* judge: the submitter is paired to no one; the item is ignored
JudgeUnpaired ==
  /\ judge_queue # <<>>
  /\ ~dropped[Item.user]
  /\ opponent[Item.user] = None
  /\ judge_queue' = Tail(judge_queue)
  /\ UNCHANGED <<userVars, queue, games, sessVars, matchmaker_queue,
                 matchmaker_livecheck_queue, mmVars, outstanding, requests, moves,
                 surrendered>>

\* judge: the opponent is dropped; the submitter wins its game by `leave`
JudgeOpponentDropped ==
  /\ judge_queue # <<>>
  /\ ~dropped[Item.user]
  /\ opponent[Item.user] # None
  /\ dropped[opponent[Item.user]]
  /\ judge_queue' = Tail(judge_queue)
  /\ games' = [games EXCEPT ![game[Item.user]] =
                 [@ EXCEPT !.winner = Item.user, !.special = "leave"]]
  /\ outstanding' = Pop(opponent[Item.user])
  /\ queue' = Put(queue, Item.user, Cmd("endgame"))
  /\ UNCHANGED <<userVars, sessVars, matchmaker_queue,
                 matchmaker_livecheck_queue, mmVars, requests, moves, surrendered>>

\* judge: the opponent has nothing outstanding; record the submission
JudgeHold ==
  /\ judge_queue # <<>>
  /\ ~dropped[Item.user]
  /\ opponent[Item.user] # None
  /\ ~dropped[opponent[Item.user]]
  /\ ~HasEntry(opponent[Item.user])
  /\ judge_queue' = Tail(judge_queue)
  /\ outstanding' = Hold(Item)
  /\ UNCHANGED <<userVars, queue, games, sessVars, matchmaker_queue,
                 matchmaker_livecheck_queue, mmVars, requests, moves, surrendered>>

\* judge: the opponent's submission is outstanding and both are live
Pairs ==
  /\ judge_queue # <<>>
  /\ ~dropped[Item.user]
  /\ opponent[Item.user] # None
  /\ ~dropped[opponent[Item.user]]
  /\ HasEntry(opponent[Item.user])

\* judge: game = u1.game, with (u1, move1) the side of game.user1:
\* `if game.user1 != u1: u2, u1 = u1, u2; move2, move1 = move1, move2`
PairGame == game[Item.user]
NoSwap == SameUser(games[PairGame].user1, Item.user)
U1 == IF NoSwap THEN Item.user ELSE opponent[Item.user]
U2 == IF NoSwap THEN opponent[Item.user] ELSE Item.user
Move1 == IF NoSwap THEN Item.move ELSE Entry(opponent[Item.user]).move
Move2 == IF NoSwap THEN Entry(opponent[Item.user]).move ELSE Item.move

\* judge: a pair with a special token; the other side wins and gets endgame
\* (move1 is tested first)
SpecialLoserIsWinner(g) ==
  IF Move1 \in Special
  THEN [g EXCEPT !.winner = U1, !.special = Move1]
  ELSE [g EXCEPT !.winner = U2, !.special = Move2]

SpecialOutcome(g) ==
  IF Move1 \in Special
  THEN [g EXCEPT !.winner = U2, !.special = Move1]
  ELSE [g EXCEPT !.winner = U1, !.special = Move2]

JudgeSpecial ==
  /\ Pairs
  /\ Move1 \in Special \/ Move2 \in Special
  /\ judge_queue' = Tail(judge_queue)
  /\ outstanding' = Pop(opponent[Item.user])
  /\ games' = [games EXCEPT ![PairGame] = SpecialOutcome(@)]
  /\ queue' = Put(queue, IF Move1 \in Special THEN U2 ELSE U1, Cmd("endgame"))
  /\ UNCHANGED <<userVars, sessVars, matchmaker_queue,
                 matchmaker_livecheck_queue, mmVars, requests, moves, surrendered>>

\* judge: a pair of gestures; game.turn(move1, move2), endturn to both
JudgeTurn ==
  /\ Pairs
  /\ Move1 \notin Special /\ Move2 \notin Special
  /\ judge_queue' = Tail(judge_queue)
  /\ outstanding' = Pop(opponent[Item.user])
  /\ games' = [games EXCEPT ![PairGame] = GameTurn(@, Move1, Move2)]
  /\ queue' = Put(Put(queue, U1, Cmd("endturn")), U2, Cmd("endturn"))
  /\ UNCHANGED <<userVars, sessVars, matchmaker_queue,
                 matchmaker_livecheck_queue, mmVars, requests, moves, surrendered>>

\* ------------------------------------------------------------- matchmaker
\* matchmaker, top of the loop: `if waiting is not None and
\* waiting.affiliation is not None`: a waiting bot is sent terminate and the
\* slot is cleared.  No suspension point separates it from the end of the
\* previous iteration, so it is applied where an iteration ends.
IsBot(u) == u # None /\ affiliation[u] # None
EvictQueue(q, w) == IF IsBot(w) THEN Put(q, w, Cmd("terminate")) ELSE q
EvictWaiting(w) == IF IsBot(w) THEN None ELSE w

\* spawn_bot: the next bot
NextBot == NumHumans + spawned + 1

\* matchmaker: take a human request while nobody waits: waiting = new_user
MMGetIdle ==
  /\ mm_pc = "get"
  /\ matchmaker_queue # <<>>
  /\ ~Head(matchmaker_queue)[2]
  /\ waiting = None
  /\ matchmaker_queue' = Tail(matchmaker_queue)
  /\ waiting' = Head(matchmaker_queue)[1]
  /\ UNCHANGED <<userVars, queue, games, sessVars, matchmaker_livecheck_queue,
                 judge_queue, new_user, on_hold, mm_pc, spawned, outstanding,
                 requests, moves, surrendered>>

\* matchmaker: take a human request while someone waits: livecheck waiting
MMGetProbe ==
  /\ mm_pc = "get"
  /\ matchmaker_queue # <<>>
  /\ ~Head(matchmaker_queue)[2]
  /\ waiting # None
  /\ matchmaker_queue' = Tail(matchmaker_queue)
  /\ new_user' = Head(matchmaker_queue)[1]
  /\ on_hold' = None
  /\ queue' = Put(queue, waiting, Cmd("livecheck"))
  /\ mm_pc' = "livecheck"
  /\ UNCHANGED <<userVars, games, sessVars, matchmaker_livecheck_queue,
                 judge_queue, waiting, spawned, outstanding, requests, moves,
                 surrendered>>

\* matchmaker, `if waiting is None ... elif waiting != new_user`: the
\* requester takes the waiting slot unless an equal user holds it
Displaces(r) == waiting = None \/ ~SameUser(waiting, r)

\* matchmaker: take a bot request: the requester becomes waiting (a waiting
\* user that is not equal to it goes on hold), a bot is spawned for the
\* requester as new_user with the uid generate_uid draws, and the waiting
\* user is livechecked
MMGetBot ==
  /\ mm_pc = "get"
  /\ matchmaker_queue # <<>>
  /\ Head(matchmaker_queue)[2]
  /\ spawned < MaxBots
  /\ matchmaker_queue' = Tail(matchmaker_queue)
  /\ waiting' = IF Displaces(Head(matchmaker_queue)[1])
                THEN Head(matchmaker_queue)[1] ELSE waiting
  /\ on_hold' = IF waiting # None /\ Displaces(Head(matchmaker_queue)[1])
                THEN waiting ELSE None
  /\ spawned' = spawned + 1
  /\ affiliation' = [affiliation EXCEPT ![NextBot] = Head(matchmaker_queue)[1]]
  /\ pc' = [pc EXCEPT ![NextBot] = "waitmatch"]
  /\ new_user' = NextBot
  /\ queue' = Put(queue, waiting', Cmd("livecheck"))
  /\ mm_pc' = "livecheck"
  /\ \E u \in BotUids(NextBot) : uid' = [uid EXCEPT ![NextBot] = u]
  /\ UNCHANGED <<opponent, game, dropped, games, them, lgame, listener,
                 matchmaker_livecheck_queue, judge_queue, outstanding,
                 requests, moves, surrendered>>

\* matchmaker: a livecheck answer from a user not equal to waiting is logged
\* and ignored
MMAnswerOther ==
  /\ mm_pc = "livecheck"
  /\ matchmaker_livecheck_queue # <<>>
  /\ ~SameUser(Head(matchmaker_livecheck_queue)[1], waiting)
  /\ matchmaker_livecheck_queue' = Tail(matchmaker_livecheck_queue)
  /\ UNCHANGED <<userVars, queue, games, sessVars, matchmaker_queue,
                 judge_queue, mmVars, outstanding, requests, moves, surrendered>>

\* matchmaker that keeps the failed participant in the waiting slot
NotLiveKeepsWaiting ==
  /\ waiting' = waiting
  /\ queue' = EvictQueue(queue, new_user)
  /\ mm_pc' = "get"
  /\ new_user' = None
  /\ on_hold' = None
  /\ UNCHANGED <<userVars, games, sessVars, matchmaker_queue, judge_queue,
                 spawned, outstanding, requests, moves, surrendered>>

\* matchmaker: `if not live: waiting = new_user; continue`, then the top of
\* the loop evicts new_user if it is a bot
NotLive ==
  /\ waiting' = EvictWaiting(new_user)
  /\ queue' = EvictQueue(queue, new_user)
  /\ mm_pc' = "get"
  /\ new_user' = None
  /\ on_hold' = None
  /\ UNCHANGED <<userVars, games, sessVars, matchmaker_queue, judge_queue,
                 spawned, outstanding, requests, moves, surrendered>>

\* matchmaker: a user equal to waiting answers live=False
MMAnswerDead ==
  /\ mm_pc = "livecheck"
  /\ matchmaker_livecheck_queue # <<>>
  /\ SameUser(Head(matchmaker_livecheck_queue)[1], waiting)
  /\ ~Head(matchmaker_livecheck_queue)[2]
  /\ matchmaker_livecheck_queue' = Tail(matchmaker_livecheck_queue)
  /\ NotLive

\* matchmaker: asyncio.wait_for raises TimeoutError after 10 s: live = False.
\* The deadline can pass with an answer in the queue (the matchmaker was
\* not scheduled in time); the answer stays queued.
MMTimeout ==
  /\ mm_pc = "livecheck"
  /\ UNCHANGED matchmaker_livecheck_queue
  /\ NotLive

\* matchmaker: a user equal to waiting answers live=True: commit the pair
MMAnswerLive ==
  /\ mm_pc = "livecheck"
  /\ matchmaker_livecheck_queue # <<>>
  /\ SameUser(Head(matchmaker_livecheck_queue)[1], waiting)
  /\ Head(matchmaker_livecheck_queue)[2]
  /\ matchmaker_livecheck_queue' = Tail(matchmaker_livecheck_queue)
  /\ opponent' = [opponent EXCEPT ![waiting] = new_user, ![new_user] = waiting]
  /\ games' = Append(games, NewGame(waiting, new_user))
  /\ game' = [game EXCEPT ![waiting] = Len(games) + 1, ![new_user] = Len(games) + 1]
  /\ queue' = Put(Put(queue, waiting, MatchCmd(new_user)), new_user, MatchCmd(waiting))
  /\ waiting' = None
  /\ mm_pc' = "get"
  /\ new_user' = None
  /\ on_hold' = None
  /\ UNCHANGED <<uid, dropped, affiliation, sessVars, matchmaker_queue, judge_queue,
                 spawned, outstanding, requests, moves, surrendered>>

\* ------------------------------------------------------------------- Next
Next ==
  \/ \E h \in Humans :
       \/ Standby(h) \/ StandbyClosed(h) \/ BotRequest(h)
       \/ WaitLivecheck(h) \/ WaitLivecheckAnswer(h) \/ WaitLivecheckClosed(h)
       \/ WaitLivecheckTimeoutError(h)
       \/ ListenerClosed(h) \/ WaitMatch(h) \/ WaitIgnore(h)
       \/ SendMatch(h) \/ SendMatchClosed(h) \/ SendMatchTimeoutError(h)
       \/ (\E v \in MoveValues : GetMove(h, v))
       \/ GetMoveTimeout(h) \/ GetMoveClosed(h) \/ GetMoveQuit(h)
       \/ GetMoveSurrender(h) \/ GetMoveTypeError(h)
       \/ EndturnNoTurn(h) \/ Endturn(h) \/ EndturnClosed(h) \/ EndturnSent(h)
       \/ EndgameNext(h) \/ EndgameCalled(h)
       \/ GameOver(h) \/ GameOverClosed(h) \/ CmdIgnore(h)
       \/ Drop(h)
  \/ \E b \in Bots :
       \/ (\E v \in BotValues : BotMatch(b, v) \/ BotNext(b, v))
       \/ BotTerminate(b) \/ BotEnd(b)
  \/ JudgeDropped \/ JudgeUnpaired \/ JudgeOpponentDropped \/ JudgeHold
  \/ JudgeSpecial \/ JudgeTurn
  \/ MMGetIdle \/ MMGetProbe \/ MMGetBot
  \/ MMAnswerOther \/ MMAnswerDead \/ MMTimeout \/ MMAnswerLive

Spec == Init /\ [][Next]_vars

\* ------------------------------------------------------ a game in progress
Abs(n) == IF n >= 0 THEN n ELSE -n

\* max(score1, score2) >= 10 and |score1 - score2| >= 2
WinCond(g) ==
  /\ Max(g.score1, g.score2) >= WinScore
  /\ Abs(g.score1 - g.score2) >= WinLead

\* The scores a game in progress starts from: each side at most MaxToGo
\* points short of WinScore
StartScores == (WinScore - MaxToGo)..WinScore

\* The Game of clients 1 and 2 after turns that brought it to s1-s2, the
\* last of them a turn both sides passed (the deadline passed for both)
GameInProgress(s1, s2) ==
  [user1 |-> 1, user2 |-> 2, score1 |-> s1, score2 |-> s2,
   winner |-> None, special |-> "none", nturns |-> s1 + s2 + 1,
   last |-> [winner |-> None, move1 |-> PASS, move2 |-> PASS]]

\* Clients 1 and 2 were paired by the matchmaker (two standby frames, the
\* livecheck, the match frames) and have played their game to an undecided
\* score; both sessions are in user_session_play_game at the read of the
\* next move, nothing is queued anywhere and nothing is outstanding.
InitGame ==
  /\ uid \in {DistinctUids, SharedUids}
  /\ opponent = [p \in Participants |-> IF p = 1 THEN 2 ELSE IF p = 2 THEN 1 ELSE None]
  /\ game = [p \in Participants |-> IF p \in {1, 2} THEN 1 ELSE None]
  /\ dropped = [p \in Participants |-> FALSE]
  /\ affiliation = [p \in Participants |-> None]
  /\ queue = [p \in Participants |-> <<>>]
  /\ \E s1 \in StartScores, s2 \in StartScores :
       /\ ~WinCond(GameInProgress(s1, s2))
       /\ games = <<GameInProgress(s1, s2)>>
  /\ pc = [p \in Participants |-> IF p \in {1, 2} THEN "getmove"
                                  ELSE IF p \in Humans THEN "standby" ELSE "unborn"]
  /\ them = [h \in Humans |-> IF h = 1 THEN 2 ELSE IF h = 2 THEN 1 ELSE None]
  /\ lgame = [h \in Humans |-> IF h \in {1, 2} THEN 1 ELSE None]
  /\ listener = [h \in Humans |-> FALSE]
  /\ matchmaker_queue = <<>>
  /\ matchmaker_livecheck_queue = <<>>
  /\ judge_queue = <<>>
  /\ waiting = None
  /\ new_user = None
  /\ on_hold = None
  /\ mm_pc = "get"
  /\ spawned = 0
  /\ outstanding = [k \in Uids |-> NoEntry]
  /\ requests = 2
  /\ moves = 0
  /\ surrendered = {}

\* The steps of Next from a game in progress.  Two of the MaxRequests pair
\* requests are spent on the pairing, and with the two that remain no state
\* enables EndturnNoTurn (an endturn for a session whose game has no turn),
\* CmdIgnore (a livecheck or match for a session that is playing) or
\* MMAnswerOther (an unread answer of a user who is not waiting); every
\* other step of Next is here.
NextGame ==
  \/ \E h \in Humans :
       \/ Standby(h) \/ StandbyClosed(h) \/ BotRequest(h)
       \/ WaitLivecheck(h) \/ WaitLivecheckAnswer(h) \/ WaitLivecheckClosed(h)
       \/ WaitLivecheckTimeoutError(h)
       \/ ListenerClosed(h) \/ WaitMatch(h) \/ WaitIgnore(h)
       \/ SendMatch(h) \/ SendMatchClosed(h) \/ SendMatchTimeoutError(h)
       \/ (\E v \in MoveValues : GetMove(h, v))
       \/ GetMoveTimeout(h) \/ GetMoveClosed(h) \/ GetMoveQuit(h)
       \/ GetMoveSurrender(h) \/ GetMoveTypeError(h)
       \/ Endturn(h) \/ EndturnClosed(h) \/ EndturnSent(h)
       \/ EndgameNext(h) \/ EndgameCalled(h)
       \/ GameOver(h) \/ GameOverClosed(h)
       \/ Drop(h)
  \/ \E b \in Bots :
       \/ (\E v \in BotValues : BotMatch(b, v) \/ BotNext(b, v))
       \/ BotTerminate(b) \/ BotEnd(b)
  \/ JudgeDropped \/ JudgeUnpaired \/ JudgeOpponentDropped \/ JudgeHold
  \/ JudgeSpecial \/ JudgeTurn
  \/ MMGetIdle \/ MMGetProbe \/ MMGetBot
  \/ MMAnswerDead \/ MMTimeout \/ MMAnswerLive

SpecGame == InitGame /\ [][NextGame]_vars

\* ----------------------------------------------------------------- claims
GameIds == 1..Len(games)

Leader(g) == IF g.score1 > g.score2 THEN g.user1 ELSE g.user2

ByScore(g) == g.winner # None /\ g.special = "none"

PlayPcs == {"sendmatch", "getmove", "waitcmd", "sendturn", "endgame"}

\* C3: per-turn mutual-submission ordering.  Whenever the judge is about to
\* resolve a turn of a game G (its next step calls G.turn and posts endturn
\* to both sides), the two submissions it consumes are gestures submitted
\* for G by the two participants of G.
C3_MutualSubmission ==
  (Pairs /\ Move1 \notin Special /\ Move2 \notin Special) =>
    /\ Item.game = PairGame
    /\ Entry(opponent[Item.user]).game = PairGame
    /\ {Item.user, opponent[Item.user]} =
         {games[PairGame].user1, games[PairGame].user2}

\* C4: pairing is symmetric and exclusive: every participant P whose game
\* has no winner yet has P.opponent.opponent = P and P.opponent.game = P.game.
C4_PairingSymmetric ==
  \A p \in Participants :
    (game[p] # None /\ games[game[p]].winner = None) =>
      /\ opponent[p] # None
      /\ opponent[opponent[p]] = p
      /\ game[opponent[p]] = game[p]

\* C5: the participant in the matchmaker's waiting slot is not a participant
\* of any undecided game.
C5_WaitingNotPaired ==
  \A i \in GameIds :
    games[i].winner = None => waiting \notin {games[i].user1, games[i].user2}

\* No command can ever reach b's queue again: b is blocked on its empty
\* command queue with nothing of its own left for the judge, every
\* participant whose opponent is b has finished (its submissions are
\* discarded), and the matchmaker neither holds b nor has a request of b.
StuckForever(b) ==
  /\ pc[b] = "waitcmd"
  /\ queue[b] = <<>>
  /\ \A k \in 1..Len(judge_queue) : judge_queue[k].user # b
  /\ \A x \in Participants : opponent[x] = b => pc[x] = "done"
  /\ b \notin {waiting, new_user, on_hold}
  /\ \A k \in 1..Len(matchmaker_queue) : matchmaker_queue[k][1] # b

\* C6: a participant whose opponent surrendered the game it is playing
\* receives endgame: it is never left blocked for ever on its command queue.
\* (A session in "waitcmd" has had no transport error: it is connected.)
C6_SurrenderReachesOpponent ==
  \A b \in Humans :
    (pc[b] \in PlayPcs /\ \E a \in Humans : a # b /\ <<a, lgame[b]>> \in surrendered)
      => ~StuckForever(b)

\* C7: a participant whose opponent's session has ended (quit, connection
\* closed) during their undecided game is never left blocked for ever on its
\* command queue.
C7_LeaveReachesOpponent ==
  \A b \in Humans :
    (/\ pc[b] \in PlayPcs
     /\ games[lgame[b]].winner = None
     /\ pc[them[b]] = "done")
      => ~StuckForever(b)

LeaveQueued(h) ==
  /\ judge_queue' # <<>>
  /\ judge_queue'[Len(judge_queue')].user = h
  /\ judge_queue'[Len(judge_queue')].move = "leave"
  /\ Len(judge_queue') = Len(judge_queue) + 1

\* C8: every step in which a human session ends its game on a transport
\* error (connection closed while sending match, reading a move or sending
\* endturn, or the TimeoutError that user_session catches) puts
\* (participant, leave) on the judge intake.
C8_LeaveOnTransportError ==
  [][\A h \in Humans :
       (SendMatchClosed(h) \/ GetMoveClosed(h) \/ EndturnClosed(h)
          \/ SendMatchTimeoutError(h)) => LeaveQueued(h)]_vars

\* The two sides of the pair the judge is about to resolve: the submitter of
\* the item at the head of the intake and its opponent's outstanding entry.
TokenOf(p) ==
  IF p = Item.user THEN Item.move ELSE Entry(opponent[Item.user]).move
OtherSide(p) == IF p = Item.user THEN opponent[Item.user] ELSE Item.user

\* The step decides the judged game for the side opposite p by p's token:
\* winner and special set, scores and turn records unchanged, endgame
\* appended to the winner's command queue.
DecidedAgainst(p) ==
  /\ games'[PairGame].winner = OtherSide(p)
  /\ games'[PairGame].special = TokenOf(p)
  /\ games'[PairGame].score1 = games[PairGame].score1
  /\ games'[PairGame].score2 = games[PairGame].score2
  /\ games'[PairGame].nturns = games[PairGame].nturns
  /\ games'[PairGame].last = games[PairGame].last
  /\ queue'[OtherSide(p)] = Append(queue[OtherSide(p)], Cmd("endgame"))

\* C9 (as stated): whenever the judge pairs a leave/surrender token of a
\* participant P with the opponent's submission, the game is decided for
\* P's opponent with special = P's token, scores and turn records unchanged,
\* and endgame is posted to the winner.
C9_TokenDecides ==
  [][JudgeSpecial =>
       \A p \in {Item.user, opponent[Item.user]} :
         TokenOf(p) \in Special => DecidedAgainst(p)]_vars

\* The side of the judged pair whose submission the judge tests first: the
\* submitter at hand when its uid is that of the game's user1, its opponent
\* otherwise.
TestedFirst ==
  IF uid[Item.user] = uid[games[PairGame].user1]
  THEN Item.user ELSE opponent[Item.user]

\* C9 (amended): the same, for a token P whose paired submission is a
\* gesture, or, when both paired submissions are tokens, for the token the
\* judge tests first only (that of the side it takes as the game's user1).
C9_TokenDecidesUser1First ==
  [][JudgeSpecial =>
       \A p \in {Item.user, opponent[Item.user]} :
         (/\ TokenOf(p) \in Special
          /\ \/ TokenOf(OtherSide(p)) \notin Special
             \/ p = TestedFirst)
           => DecidedAgainst(p)]_vars

\* C9 witness: a game decided by a paired surrender whose winner has the
\* endgame command in its queue.
C9_Witness ==
  \E i \in GameIds :
    /\ games[i].special = "surrender"
    /\ games[i].winner # None
    /\ \E k \in 1..Len(queue[games[i].winner]) :
         queue[games[i].winner][k].action = "endgame"

\* The outstanding table holds a submission of participant u
Holds(u) == Entry(u).user = u

\* C10: in every undecided game at most one of the two participants has an
\* entry in the judge's outstanding table.
C10_OneOutstanding ==
  \A i \in GameIds :
    games[i].winner = None =>
      ~(Holds(games[i].user1) /\ Holds(games[i].user2))

\* The beats relation as the rules state it
Beats(a, b) ==
  \/ <<a, b>> \in {<<ROCK, SCISSORS>>, <<SCISSORS, PAPER>>, <<PAPER, ROCK>>}
  \/ a # PASS /\ b = PASS

\* C11: every turn record has a winner that is one of the game's two
\* participants and whose recorded gesture beats the other's, or it has no
\* winner and the two recorded gestures are equal.
C11_TurnRecord ==
  \A i \in GameIds :
    LET g == games[i] IN
      g.nturns > 0 =>
        \/ g.last.winner = g.user1 /\ Beats(g.last.move1, g.last.move2)
        \/ g.last.winner = g.user2 /\ Beats(g.last.move2, g.last.move1)
        \/ g.last.winner = None /\ g.last.move1 = g.last.move2

\* C12: a judge step that takes a submission whose submitter is marked
\* dropped, or has no opponent, changes nothing but the intake: the
\* outstanding table, every game (scores, winner, special, turns) and every
\* session command queue are unchanged by it.
C12_DiscardNoEffect ==
  [][(/\ judge_queue # <<>>
      /\ judge_queue' = Tail(judge_queue)
      /\ dropped[Item.user] \/ opponent[Item.user] = None)
       => /\ outstanding' = outstanding
          /\ games' = games
          /\ queue' = queue]_vars

\* C12 witness: the judge is about to take a submission of a dropped
\* submitter while another submission is outstanding in an undecided game.
C12_Witness ==
  /\ judge_queue # <<>>
  /\ dropped[Item.user]
  /\ \E u \in Participants : HasEntry(u)
  /\ \E i \in GameIds : games[i].winner = None

\* A matchmaker step that ends the livecheck of `waiting` with live = False:
\* the 10 s deadline passed (no answer was taken), or the answer taken was
\* False.
LivecheckFails ==
  /\ mm_pc = "livecheck"
  /\ mm_pc' = "get"
  /\ \/ matchmaker_livecheck_queue' = matchmaker_livecheck_queue
     \/ ~Head(matchmaker_livecheck_queue)[2]

\* No game is made, no match is posted, and the pairing references of the
\* waiting participant and of the arrival are untouched.
NoPairMade ==
  /\ games' = games
  /\ \A p \in Participants :
       \/ queue'[p] = queue[p]
       \/ queue'[p][Len(queue'[p])].action # "match"
  /\ opponent'[waiting] = opponent[waiting]
  /\ game'[waiting] = game[waiting]
  /\ opponent'[new_user] = opponent[new_user]
  /\ game'[new_user] = game[new_user]

\* C13 (as stated): when the livecheck of the waiting participant fails, the
\* matchmaker makes no game, posts no match, leaves both participants'
\* opponent/game unchanged, and the waiting slot becomes the new arrival.
C13_FailedLivecheck ==
  [][LivecheckFails => NoPairMade /\ waiting' = new_user]_vars

\* C13 (amended): the same, where the waiting slot becomes the new arrival
\* if it is a human; an arriving bot is sent terminate and the slot is empty
\* when the matchmaker next waits for an intake item.
C13_FailedLivecheckBotEvicted ==
  [][LivecheckFails =>
       /\ NoPairMade
       /\ new_user \in Humans => waiting' = new_user
       /\ new_user \in Bots =>
            /\ waiting' = None
            /\ queue'[new_user] = Append(queue[new_user], Cmd("terminate"))]_vars

\* C13 witness: no game exists, a human arrival holds the waiting slot, and
\* the participant that held it before still has the unanswered livecheck.
C13_Witness ==
  /\ mm_pc = "get"
  /\ waiting \in Humans
  /\ games = <<>>
  /\ \E w \in Humans \ {waiting} :
       /\ pc[w] = "wait"
       /\ queue[w] # <<>>
       /\ Head(queue[w]).action = "livecheck"

\* C14: a human put on hold by another participant's bot request is back in
\* the waiting slot when the matchmaker has finished handling that request
\* (the pair was committed or the livecheck failed): every step that ends an
\* iteration with someone on hold leaves that participant in the slot.
C14_OnHoldRestored ==
  [][(mm_pc = "livecheck" /\ mm_pc' = "get" /\ on_hold # None)
       => waiting' = on_hold]_vars

\* C15: every game that contains a bot pairs the bot with its affiliation,
\* a human; a bot's opponent is never anyone else; when the matchmaker waits
\* for an intake item the waiting slot holds no bot, and a spawned bot that
\* was not paired has been sent terminate.
C15_BotWithAffiliation ==
  /\ \A i \in GameIds :
       /\ games[i].user1 \in Bots =>
            games[i].user2 = affiliation[games[i].user1] /\ games[i].user2 \in Humans
       /\ games[i].user2 \in Bots =>
            games[i].user1 = affiliation[games[i].user2] /\ games[i].user1 \in Humans
  /\ \A b \in Bots : opponent[b] # None => opponent[b] = affiliation[b]
  /\ mm_pc = "get" => waiting \notin Bots
  /\ \A b \in Bots :
       (pc[b] # "unborn" /\ opponent[b] = None /\ new_user # b) =>
         \/ pc[b] = "done"
         \/ \E k \in 1..Len(queue[b]) : queue[b][k].action = "terminate"

\* The score of the judged pair's submitter (the head of the intake) and of
\* its opponent in game record g
SubmitterScore(g) == IF g.user1 = Item.user THEN g.score1 ELSE g.score2
OpponentScore(g) == IF g.user1 = Item.user THEN g.score2 ELSE g.score1

\* C16: a session whose turn deadline passes submits exactly one PASS for
\* the participant; when the judge resolves a turn in which one side passed
\* and the other played ROCK, PAPER or SCISSORS, the other side wins the
\* turn (its score +1, the passer's score unchanged); when both passed the
\* turn is a draw.
C16_TimeoutIsPass ==
  [][/\ \A h \in Humans :
          GetMoveTimeout(h) =>
            /\ Len(judge_queue') = Len(judge_queue) + 1
            /\ SubSeq(judge_queue', 1, Len(judge_queue)) = judge_queue
            /\ judge_queue'[Len(judge_queue')].user = h
            /\ judge_queue'[Len(judge_queue')].move = PASS
     /\ (Pairs /\ judge_queue' = Tail(judge_queue)) =>
          LET mu == Item.move
              mo == Entry(opponent[Item.user]).move
              g == games[PairGame]
              gn == games'[PairGame]
              RPS == {ROCK, PAPER, SCISSORS}
          IN /\ (mu = PASS /\ mo \in RPS) =>
                  /\ OpponentScore(gn) = OpponentScore(g) + 1
                  /\ SubmitterScore(gn) = SubmitterScore(g)
                  /\ gn.last.winner = opponent[Item.user]
             /\ (mu \in RPS /\ mo = PASS) =>
                  /\ SubmitterScore(gn) = SubmitterScore(g) + 1
                  /\ OpponentScore(gn) = OpponentScore(g)
                  /\ gn.last.winner = Item.user
             /\ (mu = PASS /\ mo = PASS) =>
                  /\ gn.score1 = g.score1 /\ gn.score2 = g.score2
                  /\ gn.nturns = g.nturns + 1
                  /\ gn.last.winner = None]_vars

\* Exactly one of the three propositions holds
ExactlyOne(p, q, r) ==
  /\ p \/ q \/ r
  /\ ~(p /\ q) /\ ~(p /\ r) /\ ~(q /\ r)

\* C17: for every pair of gestures (a, b), exactly one of a > b, b > a,
\* a = b holds; a > b is the beats relation (ROCK over SCISSORS, SCISSORS
\* over PAPER, PAPER over ROCK, every other gesture over PASS); PASS equals
\* only PASS; and a > b holds iff b < a.  Stated wherever the judge resolves
\* a turn: for all pairs, and for the pair (move1, move2) the judge passes
\* to Game.turn against the turn winner Game.turn derives from comparing
\* them.
C17_GestureOrder ==
  [][(/\ Pairs
      /\ judge_queue' = Tail(judge_queue)
      /\ Move1 \in Gesture /\ Move2 \in Gesture) =>
       /\ \A a \in Gesture, b \in Gesture :
            /\ ExactlyOne(Gt(a, b), Gt(b, a), a = b)
            /\ Gt(a, b) <=> Beats(a, b)
            /\ Gt(a, b) <=> Lt(b, a)
            /\ (a = PASS \/ b = PASS) => (a = b <=> (a = PASS /\ b = PASS))
       /\ \A v \in -1..3 : GestureOf(v) \in Gesture
       /\ LET g == games[PairGame]
              gn == games'[PairGame]
          IN /\ gn.nturns = g.nturns + 1
             /\ gn.last.winner = g.user1 <=> Lt(Move2, Move1)
             /\ gn.last.winner = g.user2 <=> Lt(Move1, Move2)
             /\ gn.last.winner = None <=> Move1 = Move2]_vars

\* C17 witness: the judge resolved a turn of ROCK against PASS, won by ROCK
C17_Witness ==
  \E i \in GameIds :
    /\ games[i].nturns > 0
    /\ games[i].last = [winner |-> games[i].user1, move1 |-> ROCK, move2 |-> PASS]

\* The gesture a turn record holds under participant x's uid
RecordedUnder(g, x) == IF SameUser(g.user1, x) THEN g.last.move1 ELSE g.last.move2

\* C18: when the judge resolves a turn, the record it appends holds under
\* each participant's uid the gesture the judge consumed from that
\* participant, and a turn win is credited to the participant who played the
\* winning gesture (score1 for user1, score2 for user2), whichever of the
\* two submissions reached the judge first.
C18_RecordAndCredit ==
  [][(/\ Pairs
      /\ judge_queue' = Tail(judge_queue)
      /\ Item.move \in Gesture
      /\ Entry(opponent[Item.user]).move \in Gesture) =>
       LET o == opponent[Item.user]
           g == games[PairGame]
           gn == games'[PairGame]
       IN /\ gn.nturns = g.nturns + 1
          /\ RecordedUnder(gn, Item.user) = Item.move
          /\ RecordedUnder(gn, o) = Entry(o).move
          /\ gn.last.winner \in {None, Item.user, o}
          /\ gn.last.winner = None =>
               gn.score1 = g.score1 /\ gn.score2 = g.score2
          /\ gn.last.winner # None =>
               /\ Beats(RecordedUnder(gn, gn.last.winner),
                        RecordedUnder(gn, IF gn.last.winner = o THEN Item.user ELSE o))
               /\ gn.last.winner = gn.user1 =>
                    gn.score1 = g.score1 + 1 /\ gn.score2 = g.score2
               /\ gn.last.winner = gn.user2 =>
                    gn.score2 = g.score2 + 1 /\ gn.score1 = g.score1]_vars

\* C19: the matchmaker commits a pair only on the waiting participant's
\* answer to the current probe, so every step that commits a pair (makes a
\* game) does so with a waiting participant whose session has not ended.
C19_CommitOnlyWithLiveWaiting ==
  [][Len(games') > Len(games) => ~dropped[waiting]]_vars

\* No command can ever reach bot b's queue again: b waits on its empty
\* command queue with nothing of its own left for the judge, every
\* participant whose opponent is b has finished, and the matchmaker is done
\* with b.
BotStuckForever(b) ==
  /\ pc[b] = "botcmd"
  /\ queue[b] = <<>>
  /\ \A k \in 1..Len(judge_queue) : judge_queue[k].user # b
  /\ \A x \in Participants : opponent[x] = b => pc[x] = "done"
  /\ b \notin {waiting, new_user, on_hold}

\* C20: every bot session exits: a spawned bot the matchmaker has finished
\* with has been sent match or terminate, and a matched bot whose game has a
\* winner, or whose affiliated human's session has ended, is never left
\* blocked for ever on its command queue.
C20_BotExits ==
  \A b \in Bots :
    /\ (pc[b] = "waitmatch" /\ new_user # b) =>
         \E k \in 1..Len(queue[b]) : queue[b][k].action \in {"match", "terminate"}
    /\ (/\ pc[b] = "botcmd"
        /\ \/ games[game[b]].winner # None
           \/ pc[affiliation[b]] = "done")
         => ~BotStuckForever(b)

\* C21: whenever the judge is about to resolve a pair of submissions on a
\* game G (by Game.turn or by a special termination), both submissions were
\* made for G by the two participants of G, and when the resolution is a
\* turn, every human session that will receive its endturn is playing G.
C21_NoCrossGameConsumption ==
  Pairs =>
    /\ Item.game = PairGame
    /\ Entry(opponent[Item.user]).game = PairGame
    /\ {Item.user, opponent[Item.user]} =
         {games[PairGame].user1, games[PairGame].user2}
    /\ (Move1 \notin Special /\ Move2 \notin Special) =>
         \A p \in {Item.user, opponent[Item.user]} \cap Humans :
           lgame[p] = PairGame

\* C22: the two participants of every game the matchmaker has made are
\* distinct: they never have the same uid (no participant is paired with
\* itself).
C22_DistinctParticipants ==
  \A i \in GameIds : ~SameUser(games[i].user1, games[i].user2)

\* C23: a decided game is frozen: once a game's winner is set, no step
\* changes its winner, its special terminator, its scores or its turn
\* records.
C23_DecidedGameFrozen ==
  [][\A i \in GameIds : games[i].winner # None => games'[i] = games[i]]_vars

====
